---- MODULE Spec2Model ----
(***************************************************************************)
(* State-machine model of etl_project/pipelines/earthquakes.py: the        *)
(* process entry point (__main__), the scheduler loop, run_pipeline and    *)
(* pipeline.  One action per statement group of the source; an exception   *)
(* raised by a call is the "raise" outcome of the action of that call.     *)
(***************************************************************************)
EXTENDS Integers, Sequences, FiniteSets, TLC

\* ------------------------------------------------------------------ bounds
MaxRuns == 2
MaxId == 1
MaxRunTime == 2
MaxRunSeconds == 1
MaxPollSeconds == 1

VARIABLES
  pc,              \* position of the single thread of the process
  config_exists,   \* Path(yaml_file_path).exists()
  run_seconds,     \* pipeline_config["schedule"]["run_seconds"]
  poll_seconds,    \* pipeline_config["schedule"]["poll_seconds"]
  due,             \* job.next_run - now, in seconds (NoJob before registration)
  runs,            \* number of run_pipeline invocations started so far
  active,          \* number of run_pipeline invocations in progress
  next_client,     \* identity of the next client object to be constructed
  postgresql_logging_client,  \* the object bound at line 185 (0: none)
  postgresql_client,          \* the object bound at line 117 in this run (0: none)
  client_use,      \* history: <<run, role, client object>> used by a run
  metadata_table,  \* rows inserted by MetaDataLogging.log, in order
  run_log,         \* lines accumulated by the PipelineLogging of this run
  handlers,        \* runs whose handlers are attached to the run logger
  df_earthquakes,  \* extracted features of this run
  df_transformed_table_1,
  df_transformed_table_2,
  table1,          \* rows of table_{table_name}_data
  table2,          \* rows of table_{table_name}_2_data
  last_load1,      \* history: id -> row of the last successful load of table 1
  last_load2,      \* history: id -> row of the last successful load of table 2
  executed,        \* history: calls made by this run, in order
  raised,          \* history: the call of this run's try block that raised
  meta_raised,     \* history: Metadata Recorder calls of this run that raised
  elapsed,         \* history: seconds the last returned run took
  since_return     \* history: seconds since the last run returned (saturating)

vars == <<pc, config_exists, run_seconds, poll_seconds, due, runs, active,
          next_client, postgresql_logging_client, postgresql_client,
          client_use, metadata_table, run_log, handlers, df_earthquakes,
          df_transformed_table_1, df_transformed_table_2, table1, table2,
          last_load1, last_load2, executed, raised, meta_raised, elapsed,
          since_return>>

\* ------------------------------------------------------------ feed and rows
Ids == 1..MaxId
\* the revisions of an event the feed serves: the original report and a
\* revised one
Vers == {1, 2}
Null == 0
NoJob == -100

\* One GeoJSON feature of the feed: event i in its revision v.  The revised
\* report carries no properties.nst.
Feature(i, v) ==
  [type |-> "Feature", id |-> i,
   properties |-> IF v = 1
     THEN [place |-> v, title |-> v, time |-> v, updated |-> v, nst |-> v,
           dmin |-> v, rms |-> v, mag |-> v, gap |-> v, magType |-> v]
     ELSE [place |-> v, title |-> v, time |-> v, updated |-> v,
           dmin |-> v, rms |-> v, mag |-> v, gap |-> v, magType |-> v],
   geometry |-> [coordinates |-> v]]

\* The feeds a fetch can return: features in ascending id order, each event
\* present in one revision or absent.
RECURSIVE FeedsUpTo(_)
FeedsUpTo(n) ==
  IF n = 0 THEN {<<>>}
  ELSE LET prev == FeedsUpTo(n - 1)
       IN prev \cup {Append(s, Feature(n, v)) : s \in prev, v \in Vers}
Feeds == FeedsUpTo(MaxId)

\* dotted field path -> its segments
Segments ==
  [p \in {"type", "id", "properties.place", "properties.title",
          "properties.time", "properties.updated", "properties.nst",
          "properties.dmin", "properties.rms", "properties.mag",
          "properties.gap", "properties.magType", "geometry.coordinates"} |->
     CASE p = "type" -> <<"type">>
       [] p = "id" -> <<"id">>
       [] p = "properties.place" -> <<"properties", "place">>
       [] p = "properties.title" -> <<"properties", "title">>
       [] p = "properties.time" -> <<"properties", "time">>
       [] p = "properties.updated" -> <<"properties", "updated">>
       [] p = "properties.nst" -> <<"properties", "nst">>
       [] p = "properties.dmin" -> <<"properties", "dmin">>
       [] p = "properties.rms" -> <<"properties", "rms">>
       [] p = "properties.mag" -> <<"properties", "mag">>
       [] p = "properties.gap" -> <<"properties", "gap">>
       [] p = "properties.magType" -> <<"properties", "magType">>
       [] p = "geometry.coordinates" -> <<"geometry", "coordinates">>]

\* value of a feature at a dotted path, Null when the path is missing
Cell(f, p) ==
  LET s == Segments[p]
  IN IF s[1] \notin DOMAIN f THEN Null
     ELSE IF Len(s) = 1 THEN f[s[1]]
     ELSE IF s[2] \notin DOMAIN f[s[1]] THEN Null
     ELSE f[s[1]][s[2]]

SeqRange(s) == {s[k] : k \in 1..Len(s)}

SelectionList1_with_mag ==
  <<"type", "id", "properties.place", "properties.title", "properties.time",
    "properties.updated", "properties.nst", "properties.dmin",
    "properties.rms", "properties.mag">>

SelectionList1 ==
  <<"type", "id", "properties.place", "properties.title", "properties.time",
    "properties.updated", "properties.nst", "properties.dmin",
    "properties.rms">>

SelectionList2_with_type ==
  <<"type", "id", "properties.mag", "properties.gap", "properties.magType",
    "geometry.coordinates">>

SelectionList2 ==
  <<"id", "properties.mag", "properties.gap", "properties.magType",
    "geometry.coordinates">>

\* transform(df, selection_list): flatten every feature and keep the selected
\* columns; one row per feature, in feed order
transform(df, selection_list) ==
  [k \in 1..Len(df) |-> [c \in SeqRange(selection_list) |-> Cell(df[k], c)]]

\* Table(...) definitions of pipeline(): ordered columns and the primary key
TableSchema1 ==
  [columns |-> <<"type", "id", "properties.place", "properties.title",
                 "properties.time", "properties.updated", "properties.nst",
                 "properties.dmin", "properties.rms">>,
   primary_key |-> <<"id">>]

TableSchema2 ==
  [columns |-> <<"id", "properties.mag", "properties.gap",
                 "properties.magType", "geometry.coordinates">>,
   primary_key |-> <<"id">>]

SameKey(r, q, schema) ==
  \A k \in SeqRange(schema.primary_key) : r[k] = q[k]

\* load(df, ..., table, load_method): the rows of the table after the call
load(rows, df, schema, load_method) ==
  LET new == SeqRange(df)
  IN IF load_method = "upsert"
     THEN {r \in rows : \A q \in new : ~SameKey(r, q, schema)} \cup new
     ELSE rows \cup new

LoadMethod1_insert == "insert"
LoadMethod1 == "upsert"
LoadMethod2 == "upsert"

\* history: id -> the rows the last load containing that id wrote for it
Remember(last, df) ==
  [i \in Ids |-> IF \E k \in 1..Len(df) : df[k]["id"] = i
                 THEN {r \in SeqRange(df) : r["id"] = i}
                 ELSE last[i]]

\* ------------------------------------------------------------------- state
BodySteps == <<"extract", "transform1", "transform2", "pg_client",
               "load1", "load2">>

RunPcs == {"construct", "log_start", "extract", "transform1", "transform2",
           "pg_client", "load1", "load2", "log_success", "clear_ok",
           "log_error", "log_failure", "clear_fail", "job_return"}

\* MetaDataLoggingStatus; RUN_START stands for a call without a status
RUN_START == "none"
RUN_SUCCESS == "success"
RUN_FAILURE_as_start == "none"
RUN_FAILURE == "failure"

\* the row one MetaDataLogging.log call inserts
MetaRow(status, logs) == [run |-> runs, status |-> status, logs |-> logs]

Min(a, b) == IF a < b THEN a ELSE b

Init ==
  /\ pc = "load_env"
  /\ config_exists \in BOOLEAN
  /\ run_seconds \in 1..MaxRunSeconds
  /\ poll_seconds \in 1..MaxPollSeconds
  /\ due = NoJob
  /\ runs = 0
  /\ active = 0
  /\ next_client = 1
  /\ postgresql_logging_client = 0
  /\ postgresql_client = 0
  /\ client_use = {}
  /\ metadata_table = <<>>
  /\ run_log = <<>>
  /\ handlers = {}
  /\ df_earthquakes = <<>>
  /\ df_transformed_table_1 = <<>>
  /\ df_transformed_table_2 = <<>>
  /\ table1 = {}
  /\ table2 = {}
  /\ last_load1 = [i \in Ids |-> {}]
  /\ last_load2 = [i \in Ids |-> {}]
  /\ executed = <<>>
  /\ raised = "none"
  /\ meta_raised = {}
  /\ elapsed = 0
  /\ since_return = 0

configVars == <<config_exists, run_seconds, poll_seconds>>
clientVars == <<next_client, postgresql_logging_client, postgresql_client,
                client_use>>
dataVars == <<df_earthquakes, df_transformed_table_1, df_transformed_table_2>>
tableVars == <<table1, table2, last_load1, last_load2>>
timeVars == <<due, elapsed, since_return>>
runVars == <<runs, active>>
histVars == <<executed, raised, meta_raised>>

\* ------------------------------------------------------ process entry point
\* lines 178-191: load_dotenv() and the logging PostgreSqlClient
CreateLoggingClient ==
  /\ pc = "load_env"
  /\ postgresql_logging_client' = next_client
  /\ next_client' = next_client + 1
  /\ pc' = "read_config"
  /\ UNCHANGED <<configVars, postgresql_client, client_use, metadata_table,
                 run_log, handlers, dataVars, tableVars, timeVars, runVars,
                 histVars>>

\* lines 198-201: where control goes when the YAML file does not exist: the
\* raise ends the process
MissingConfig_ignored == "register"
MissingConfig == "crashed"

\* lines 193-201: read the YAML file next to the module, or raise
ReadConfig ==
  /\ pc = "read_config"
  /\ pc' = IF config_exists THEN "register" ELSE MissingConfig
  /\ UNCHANGED <<configVars, clientVars, metadata_table, run_log, handlers,
                 dataVars, tableVars, timeVars, runVars, histVars>>

\* lines 204-209: schedule.every(run_seconds).seconds.do(run_pipeline, ...);
\* the job's first next_run is now + run_seconds
RegisterJob ==
  /\ pc = "register"
  /\ due' = run_seconds
  /\ pc' = "run_pending"
  /\ UNCHANGED <<configVars, clientVars, metadata_table, run_log, handlers,
                 dataVars, tableVars, elapsed, since_return, runVars,
                 histVars>>

\* job.should_run: now >= next_run
ShouldRun_early == due # NoJob /\ due <= 1
ShouldRun == due # NoJob /\ due <= 0

\* lines 211-212: run_pending() is called by the loop only, between two
\* sleeps, and calls the due job itself
LoopIsPolling_timer == pc \in {"run_pending"} \cup RunPcs
LoopIsPolling == pc = "run_pending"

\* line 212: schedule.run_pending() finds the job due and calls run_pipeline
RunPendingDue ==
  /\ LoopIsPolling
  /\ ShouldRun
  /\ runs < MaxRuns
  /\ runs' = runs + 1
  /\ active' = active + 1
  /\ pc' = "construct"
  /\ UNCHANGED <<configVars, clientVars, metadata_table, run_log, handlers,
                 dataVars, tableVars, timeVars, histVars>>

\* line 212: schedule.run_pending() finds no job due and returns
RunPendingIdle ==
  /\ LoopIsPolling
  /\ ~ShouldRun
  /\ pc' = "sleep"
  /\ UNCHANGED <<configVars, clientVars, metadata_table, run_log, handlers,
                 dataVars, tableVars, timeVars, runVars, histVars>>

\* line 213: time.sleep(poll_seconds), then the next iteration of the loop
Sleep ==
  /\ pc = "sleep"
  /\ due' = due - poll_seconds
  /\ since_return' = Min(since_return + poll_seconds, MaxRunSeconds)
  /\ elapsed' = 0
  /\ pc' = "run_pending"
  /\ UNCHANGED <<configVars, clientVars, metadata_table, run_log, handlers,
                 dataVars, tableVars, runs, active, histVars>>

\* schedule's Job.run after run_pipeline returned: last_run = now and
\* _schedule_next_run() sets next_run = now + run_seconds; run_pending()
\* then returns to the loop.  d is the time the run took: the process reads
\* the clock here for the first time since the run started.
NextRun_backlog(d) == d + run_seconds
NextRun(d) == run_seconds

JobReturns ==
  /\ pc = "job_return"
  /\ \E d \in 0..MaxRunTime :
       /\ elapsed' = d
       /\ due' = NextRun(due - d)
  /\ since_return' = 0
  /\ active' = active - 1
  \* the locals of run_pipeline and pipeline are gone
  /\ run_log' = <<>>
  /\ postgresql_client' = 0
  /\ df_earthquakes' = <<>>
  /\ df_transformed_table_1' = <<>>
  /\ df_transformed_table_2' = <<>>
  /\ executed' = <<>>
  /\ raised' = "none"
  /\ meta_raised' = {}
  /\ pc' = "sleep"
  /\ UNCHANGED <<configVars, next_client, postgresql_logging_client,
                 client_use, metadata_table, handlers, tableVars, runs>>

\* ------------------------------------------------------------ run_pipeline
\* where control goes when a call inside the try block raises: the
\* `except BaseException` clause of line 44
Catch_escapes(step) == IF step = "load2" THEN "crashed" ELSE "log_error"
Catch_start_outside(step) ==
  IF step = "log_start" THEN "crashed" ELSE "log_error"
Catch_continue(step) == IF step = "load1" THEN "load2" ELSE "log_error"
Catch_after_fetch(step) ==
  IF step = "extract" THEN "transform1" ELSE "log_error"
Catch(step) == "log_error"

\* where control goes after line 49: run_pipeline returns
AfterFailureRecord_reraise == "crashed"
AfterFailureRecord == "job_return"

\* lines 26-34: PipelineLogging(...) and MetaDataLogging(...), before the try
Construct ==
  /\ pc = "construct"
  /\ \/ /\ run_log' = <<>>
        /\ handlers' = handlers \cup {runs}
        /\ client_use' =
             client_use \cup {<<runs, "logging", postgresql_logging_client>>}
        /\ pc' = "log_start"
        /\ UNCHANGED active
     \/ /\ pc' = "crashed"
        /\ active' = active - 1
        /\ UNCHANGED <<run_log, handlers, client_use>>
  /\ UNCHANGED <<configVars, next_client, postgresql_logging_client,
                 postgresql_client, metadata_table, dataVars, tableVars,
                 timeVars, runs, histVars>>

\* line 36: metadata_logger.log(), the start row
LogStart ==
  /\ pc = "log_start"
  /\ executed' = Append(executed, "log_start")
  /\ \/ /\ metadata_table' = Append(metadata_table, MetaRow(RUN_START, <<>>))
        /\ pc' = "extract"
        /\ UNCHANGED <<raised, meta_raised>>
     \/ /\ raised' = "log_start"
        /\ meta_raised' = meta_raised \cup {"log_start"}
        /\ pc' = Catch("log_start")
        /\ UNCHANGED metadata_table
  /\ UNCHANGED <<configVars, clientVars, run_log, handlers, dataVars,
                 tableVars, timeVars, runVars>>

\* lines 54-77: the first log lines, the API client and
\* extract_earthquakes_data
Extract ==
  /\ pc = "extract"
  /\ executed' = Append(executed, "extract")
  /\ run_log' = run_log \o <<"Starting pipeline run", "Getting ENV variables",
                             "Creating Earthquake API client",
                             "Extracting data from Earthquake API">>
  /\ \/ /\ df_earthquakes' \in Feeds
        /\ pc' = "transform1"
        /\ UNCHANGED raised
     \/ /\ raised' = "extract"
        /\ pc' = Catch("extract")
        /\ UNCHANGED df_earthquakes
  /\ UNCHANGED <<configVars, clientVars, metadata_table, handlers,
                 df_transformed_table_1, df_transformed_table_2, tableVars,
                 timeVars, runVars, meta_raised>>

\* lines 81-100: transform with the selection list of table 1
Transform1 ==
  /\ pc = "transform1"
  /\ executed' = Append(executed, "transform1")
  /\ run_log' = Append(run_log, "Transform dataframes")
  /\ \/ /\ df_transformed_table_1' = transform(df_earthquakes, SelectionList1)
        /\ pc' = "transform2"
        /\ UNCHANGED raised
     \/ /\ raised' = "transform1"
        /\ pc' = Catch("transform1")
        /\ UNCHANGED df_transformed_table_1
  /\ UNCHANGED <<configVars, clientVars, metadata_table, handlers,
                 df_earthquakes, df_transformed_table_2, tableVars, timeVars,
                 runVars, meta_raised>>

\* lines 102-112: transform with the selection list of table 2
Transform2 ==
  /\ pc = "transform2"
  /\ executed' = Append(executed, "transform2")
  /\ \/ /\ df_transformed_table_2' = transform(df_earthquakes, SelectionList2)
        /\ pc' = "pg_client"
        /\ UNCHANGED raised
     \/ /\ raised' = "transform2"
        /\ pc' = Catch("transform2")
        /\ UNCHANGED df_transformed_table_2
  /\ UNCHANGED <<configVars, clientVars, metadata_table, run_log, handlers,
                 df_earthquakes, df_transformed_table_1, tableVars, timeVars,
                 runVars, meta_raised>>

\* the client object line 117 binds in a run
PrimaryClient_shared(fresh) == postgresql_logging_client
PrimaryClient(fresh) == fresh

\* lines 116-123: the primary PostgreSqlClient of this run
CreatePrimaryClient ==
  /\ pc = "pg_client"
  /\ executed' = Append(executed, "pg_client")
  /\ run_log' = Append(run_log, "Loading data to postgres")
  /\ \/ /\ postgresql_client' = PrimaryClient(next_client)
        /\ next_client' = next_client + 1
        /\ pc' = "load1"
        /\ UNCHANGED raised
     \/ /\ raised' = "pg_client"
        /\ pc' = Catch("pg_client")
        /\ UNCHANGED <<postgresql_client, next_client>>
  /\ UNCHANGED <<configVars, postgresql_logging_client, client_use,
                 metadata_table, handlers, dataVars, tableVars, timeVars,
                 runVars, meta_raised>>

\* what a raising load of table 2 leaves in table 1
Table1AfterLoad2Raises_rollback(rows) ==
  {r \in rows : r \notin SeqRange(df_transformed_table_1)}
Table1AfterLoad2Raises(rows) == rows

\* lines 124-165: the schema of table 1, load(..., "upsert") and the log line
Load1 ==
  /\ pc = "load1"
  /\ executed' = Append(executed, "load1")
  /\ client_use' = client_use \cup {<<runs, "primary", postgresql_client>>}
  /\ \/ /\ table1' = load(table1, df_transformed_table_1, TableSchema1,
                          LoadMethod1)
        /\ last_load1' = Remember(last_load1, df_transformed_table_1)
        /\ run_log' = Append(run_log, "Pipeline run successful Table 1")
        /\ pc' = "load2"
        /\ UNCHANGED raised
     \/ /\ raised' = "load1"
        /\ pc' = Catch("load1")
        /\ UNCHANGED <<table1, last_load1, run_log>>
  /\ UNCHANGED <<configVars, next_client, postgresql_logging_client,
                 postgresql_client, metadata_table, handlers, dataVars,
                 table2, last_load2, timeVars, runVars, meta_raised>>

\* lines 146-157 and 167-174: the schema of table 2, load(..., "upsert") and
\* the log line
Load2 ==
  /\ pc = "load2"
  /\ executed' = Append(executed, "load2")
  /\ \/ /\ table2' = load(table2, df_transformed_table_2, TableSchema2,
                          LoadMethod2)
        /\ last_load2' = Remember(last_load2, df_transformed_table_2)
        /\ run_log' = Append(run_log, "Pipeline run successful Table 2")
        /\ pc' = "log_success"
        /\ UNCHANGED <<raised, table1>>
     \/ /\ raised' = "load2"
        /\ pc' = Catch("load2")
        /\ table1' = Table1AfterLoad2Raises(table1)
        /\ UNCHANGED <<table2, last_load2, run_log>>
  /\ UNCHANGED <<configVars, clientVars, metadata_table, handlers, dataVars,
                 last_load1, timeVars, runVars, meta_raised>>

\* lines 40-42: metadata_logger.log(status=RUN_SUCCESS, logs=get_logs())
LogSuccess ==
  /\ pc = "log_success"
  /\ executed' = Append(executed, "log_success")
  /\ \/ /\ metadata_table' = Append(metadata_table, MetaRow(RUN_SUCCESS, run_log))
        /\ pc' = "clear_ok"
        /\ UNCHANGED <<raised, meta_raised>>
     \/ /\ raised' = "log_success"
        /\ meta_raised' = meta_raised \cup {"log_success"}
        /\ pc' = Catch("log_success")
        /\ UNCHANGED metadata_table
  /\ UNCHANGED <<configVars, clientVars, run_log, handlers, dataVars,
                 tableVars, timeVars, runVars>>

\* line 43: pipeline_logging.logger.handlers.clear(), then return
ClearHandlersOk ==
  /\ pc = "clear_ok"
  /\ handlers' = {}
  /\ pc' = "job_return"
  /\ UNCHANGED <<configVars, clientVars, metadata_table, run_log, dataVars,
                 tableVars, timeVars, runVars, histVars>>

\* line 45: the error line of the except clause
LogError ==
  /\ pc = "log_error"
  /\ run_log' = Append(run_log, "Pipeline run failed")
  /\ pc' = "log_failure"
  /\ UNCHANGED <<configVars, clientVars, metadata_table, handlers, dataVars,
                 tableVars, timeVars, runVars, histVars>>

\* lines 45-47: get_logs() is read after the error line was appended
FailureLogs_before_error(log) == SubSeq(log, 1, Len(log) - 1)
FailureLogs(log) == log

\* lines 46-48: metadata_logger.log(status=RUN_FAILURE, logs=get_logs()); an
\* exception raised here is raised inside the except clause and leaves
\* run_pipeline, run_pending() and the loop
LogFailure ==
  /\ pc = "log_failure"
  /\ executed' = Append(executed, "log_failure")
  /\ \/ /\ metadata_table' =
             Append(metadata_table, MetaRow(RUN_FAILURE, FailureLogs(run_log)))
        /\ pc' = "clear_fail"
        /\ UNCHANGED <<meta_raised, active>>
     \/ /\ meta_raised' = meta_raised \cup {"log_failure"}
        /\ pc' = "crashed"
        /\ active' = active - 1
        /\ UNCHANGED metadata_table
  /\ UNCHANGED <<configVars, clientVars, run_log, handlers, dataVars,
                 tableVars, timeVars, runs, raised>>

\* line 49: what handlers.clear() leaves attached on the failure path
HandlersAfterFailure_kept(h) == h
HandlersAfterFailure(h) == {}

\* line 49: pipeline_logging.logger.handlers.clear(), then return
ClearHandlersFail ==
  /\ pc = "clear_fail"
  /\ handlers' = HandlersAfterFailure(handlers)
  /\ pc' = AfterFailureRecord
  /\ UNCHANGED <<configVars, clientVars, metadata_table, run_log, dataVars,
                 tableVars, timeVars, runVars, histVars>>

\* ----------------------------------------------------------- specification
Next ==
  \/ CreateLoggingClient
  \/ ReadConfig
  \/ RegisterJob
  \/ RunPendingDue
  \/ RunPendingIdle
  \/ Sleep
  \/ JobReturns
  \/ Construct
  \/ LogStart
  \/ Extract
  \/ Transform1
  \/ Transform2
  \/ CreatePrimaryClient
  \/ Load1
  \/ Load2
  \/ LogSuccess
  \/ ClearHandlersOk
  \/ LogError
  \/ LogFailure
  \/ ClearHandlersFail

Spec == Init /\ [][Next]_vars

LiveSpec == Spec /\ WF_vars(Next)

\* ------------------------------------------------------------------ claims
\* the rows the current invocation of run_pipeline has inserted
RunRows == SelectSeq(metadata_table, LAMBDA row : row.run = runs)

\* the body calls the current invocation has made, in order
BodyExecuted == SelectSeq(executed, LAMBDA c : c \in SeqRange(BodySteps))

AfterEndRecord == {"clear_ok", "clear_fail", "job_return"}

\* C1: when a call of the pipeline body raises and no Metadata Recorder call
\* raises, the exception is caught: control is in the except clause or back
\* in the scheduler's Job.run, the error line is in the run log once line 45
\* ran, the last metadata row is this run's failure row once lines 46-48
\* ran, and the process has not terminated.
C1_BodyFailureCaught ==
  (raised \in SeqRange(BodySteps) /\ meta_raised = {}) =>
    /\ pc \in {"log_error", "log_failure", "clear_fail", "job_return"}
    /\ pc # "log_error" => "Pipeline run failed" \in SeqRange(run_log)
    /\ pc \in {"clear_fail", "job_return"} =>
         /\ metadata_table # <<>>
         /\ metadata_table[Len(metadata_table)].run = runs
         /\ metadata_table[Len(metadata_table)].status = "failure"

C1_Witness ==
  /\ pc = "job_return"
  /\ raised = "load2"
  /\ meta_raised = {}

\* C2 (as stated): a run in which a Metadata Recorder call raised never
\* returns normally to the scheduler.
C2_Original == pc = "job_return" => meta_raised = {}

\* C2 (amended): only the failure record call of the except clause
\* propagates; a raise of the start call or of the success call is caught
\* by the except clause, which logs the error line and attempts the failure
\* record, and the run returns when that write succeeds.
C2_MetadataFailure ==
  /\ "log_failure" \in meta_raised => pc = "crashed"
  /\ (meta_raised # {} /\ "log_failure" \notin meta_raised) =>
       /\ raised \in {"log_start", "log_success"}
       /\ pc \in {"log_error", "log_failure", "clear_fail", "job_return"}
       /\ pc \in {"clear_fail", "job_return"} =>
            metadata_table[Len(metadata_table)] =
              [run |-> runs, status |-> "failure", logs |-> run_log]

C2_Witness ==
  /\ pc = "job_return"
  /\ meta_raised = {"log_success"}

\* C3 (as stated): every invocation that returns has written exactly a start
\* row and then an end row.
C3_Original ==
  pc = "job_return" =>
    /\ Len(RunRows) = 2
    /\ RunRows[1].status = "none"
    /\ RunRows[2].status \in {"success", "failure"}

\* C3 (amended): an invocation that returns has written a start row and then
\* one end row when its start call succeeded, and a single failure end row
\* with no start row when its start call raised; its rows are the last rows
\* of the table and there are never more than two.
C3_RowsPerRun ==
  /\ Len(RunRows) <= 2
  /\ RunRows = SubSeq(metadata_table,
                      Len(metadata_table) - Len(RunRows) + 1,
                      Len(metadata_table))
  /\ pc = "job_return" =>
       IF "log_start" \in meta_raised
       THEN Len(RunRows) = 1 /\ RunRows[1].status = "failure"
       ELSE /\ Len(RunRows) = 2
            /\ RunRows[1].status = "none"
            /\ RunRows[2].status \in {"success", "failure"}

C3_Witness ==
  /\ pc = "job_return"
  /\ runs = 2
  /\ "log_start" \in meta_raised
  /\ Len(metadata_table) = 3

\* C4 (as stated): the process is never terminated in a run whose pipeline
\* body raised.
C4_Original == ~(pc = "crashed" /\ raised \in SeqRange(BodySteps))

\* C4 (amended): once the failure record of a failed run is written, the run
\* returns and, under fair progress of the loop, the next run starts (as long
\* as the model's run budget allows one).
C4_FailedRunThenNextRun ==
  (pc = "clear_fail" /\ runs < MaxRuns) ~> (pc = "construct")

C4_Witness ==
  /\ runs = 2
  /\ pc = "construct"
  /\ \E k \in 1..Len(metadata_table) :
       metadata_table[k].run = 1 /\ metadata_table[k].status = "failure"

\* C5: at most one invocation of run_pipeline is in progress, and one is in
\* progress exactly while control is inside run_pipeline.
C5_OneActiveRun ==
  /\ active <= 1
  /\ pc \in RunPcs <=> active = 1

C5_Witness ==
  /\ runs = 2
  /\ active = 1
  /\ pc = "load1"

\* C6: right after a run returns the job is a full interval away from being
\* due, however many intervals the run lasted: the ticks that fell due during
\* the run are not run.
C6_NoBacklog ==
  (pc = "sleep" /\ runs > 0 /\ since_return = 0) =>
    /\ due = run_seconds
    /\ ~ShouldRun

C6_Witness ==
  /\ pc = "sleep"
  /\ runs > 0
  /\ since_return = 0
  /\ elapsed >= 2 * run_seconds

\* C7 (as stated): the end record is success iff every body call completed,
\* and failure iff a body call raised.
C7_Original ==
  pc \in AfterEndRecord =>
    /\ metadata_table[Len(metadata_table)].status = "success" <=>
         (BodyExecuted = BodySteps /\ raised \notin SeqRange(BodySteps))
    /\ metadata_table[Len(metadata_table)].status = "failure" <=>
         raised \in SeqRange(BodySteps)

\* C7 (amended): the body calls of a run are a prefix of the stage order,
\* each made once, ending at the call that raised; the end record is success
\* only if all six body calls completed, and failure iff a call of the try
\* block raised: a body call, the start record or the success record.
C7_NoRetryAndStatus ==
  /\ BodyExecuted = SubSeq(BodySteps, 1, Len(BodyExecuted))
  /\ raised \in SeqRange(BodySteps) =>
       BodyExecuted[Len(BodyExecuted)] = raised
  /\ pc \in AfterEndRecord =>
       /\ metadata_table[Len(metadata_table)].run = runs
       /\ metadata_table[Len(metadata_table)].status = "success" =>
            (BodyExecuted = BodySteps /\ raised = "none")
       /\ metadata_table[Len(metadata_table)].status = "failure" <=>
            raised \in SeqRange(BodySteps) \cup {"log_start", "log_success"}

C7_Witness ==
  /\ pc = "job_return"
  /\ raised = "load1"
  /\ BodyExecuted = SubSeq(BodySteps, 1, 5)
  /\ metadata_table[Len(metadata_table)].status = "failure"

\* C8: when the load of table 2 raises, the rows the load of table 1 wrote
\* in this run are still in table 1, table 2 is as before, and the end
\* record of the run is failure.
C8_NoRollback ==
  raised = "load2" =>
    /\ SeqRange(df_transformed_table_1) \subseteq table1
    /\ pc \in {"clear_fail", "job_return"} =>
         metadata_table[Len(metadata_table)].status = "failure"

C8_Witness ==
  /\ raised = "load2"
  /\ pc = "job_return"
  /\ df_transformed_table_1 # <<>>
  /\ table2 = {}
  /\ metadata_table[Len(metadata_table)].status = "failure"

\* C9: each target table holds at most one row per id, and its rows are
\* exactly, for every id, the row of the last successful load that
\* contained that id.
C9_UpsertByKey ==
  /\ \A r, q \in table1 : r["id"] = q["id"] => r = q
  /\ \A r, q \in table2 : r["id"] = q["id"] => r = q
  /\ table1 = UNION {last_load1[i] : i \in Ids}
  /\ table2 = UNION {last_load2[i] : i \in Ids}

C9_Witness ==
  /\ runs = 2
  /\ pc = "load2"
  /\ \E r \in table1 : r["id"] = 1 /\ r["properties.place"] = 2
  /\ \E r \in table2 : r["id"] = 1 /\ r["properties.mag"] = 1

\* C10 (as stated): no client object is used by two different runs.
C10_Original ==
  \A u, w \in client_use : u[3] = w[3] => u[1] = w[1]

\* C10 (amended): the primary client of a run is an object no other run
\* uses and is not the logging client; the logging client every run uses is
\* the one object created at process start.
C10_ClientsPerRun ==
  \A u \in client_use :
    /\ u[2] = "logging" => u[3] = postgresql_logging_client /\ u[3] = 1
    /\ u[2] = "primary" =>
         /\ u[3] # postgresql_logging_client
         /\ \A w \in client_use : w[3] = u[3] => w[1] = u[1]
         /\ (u[1] = runs /\ pc \in RunPcs) => u[3] = postgresql_client

C10_Witness ==
  /\ runs = 2
  /\ \E a, b \in 2..(MaxRuns + 1) :
       /\ a # b
       /\ {<<1, "primary", a>>, <<2, "primary", b>>} \subseteq client_use
  /\ {<<1, "logging", 1>>, <<2, "logging", 1>>} \subseteq client_use

\* C11: when the YAML file is missing the process ends at the raise of line
\* 199: the job is never registered, the loop is never entered, no run
\* starts and no metadata row is written.
C11_MissingConfigFatal ==
  ~config_exists =>
    /\ pc \in {"load_env", "read_config", "crashed"}
    /\ due = NoJob
    /\ runs = 0
    /\ active = 0
    /\ metadata_table = <<>>

C11_Witness ==
  /\ ~config_exists
  /\ pc = "crashed"
  /\ postgresql_logging_client # 0

\* C12 (as stated): the two projected tables of a run have no column in
\* common.
C12_Original ==
  \A k \in DOMAIN df_transformed_table_1 :
    \A j \in DOMAIN df_transformed_table_2 :
      DOMAIN df_transformed_table_1[k] \cap DOMAIN df_transformed_table_2[j]
        = {}

\* C12 (amended): the two selection lists of a run, and the columns of the
\* two tables projected with them, have exactly the key column id in common.
C12_ShareOnlyId ==
  /\ SeqRange(SelectionList1) \cap SeqRange(SelectionList2) = {"id"}
  /\ \A k \in DOMAIN df_transformed_table_1 :
       \A j \in DOMAIN df_transformed_table_2 :
         DOMAIN df_transformed_table_1[k] \cap DOMAIN df_transformed_table_2[j]
           = {"id"}

C12_Witness ==
  /\ pc = "pg_client"
  /\ df_transformed_table_1 # <<>>
  /\ df_transformed_table_2 # <<>>
  /\ df_transformed_table_1[1]["id"] = df_transformed_table_2[1]["id"]

\* position of a call in the stage order of run_pipeline
StageOrder ==
  <<"log_start", "extract", "transform1", "transform2", "pg_client", "load1",
    "load2", "log_success", "log_failure">>

StagePos(c) == CHOOSE k \in 1..Len(StageOrder) : StageOrder[k] = c

\* C13: the calls of a run follow the stage order: the start record first,
\* then the body calls as a gapless prefix of fetch, transform 1,
\* transform 2, primary client, load 1, load 2, then the end record last.
\* The fetch runs only after the start row was written, an end row is
\* written only after the last body call, and a run whose fetch raised
\* creates and uses no primary client.
C13_StageOrder ==
  /\ \A i, j \in 1..Len(executed) :
       i < j => StagePos(executed[i]) < StagePos(executed[j])
  /\ executed # <<>> => executed[1] = "log_start"
  /\ BodyExecuted = SubSeq(BodySteps, 1, Len(BodyExecuted))
  /\ BodyExecuted # <<>> =>
       (RunRows # <<>> /\ RunRows[1].status = "none")
  /\ (pc \in RunPcs /\ \E k \in 1..Len(RunRows) : RunRows[k].status # "none") =>
       executed[Len(executed)] \in {"log_success", "log_failure"}
  /\ raised = "extract" =>
       /\ postgresql_client = 0
       /\ \A u \in client_use : ~(u[1] = runs /\ u[2] = "primary")
       /\ BodyExecuted = <<"extract">>

C13_Witness ==
  /\ pc = "job_return"
  /\ executed = <<"log_start", "extract", "transform1", "transform2",
                  "pg_client", "load1", "load2", "log_success">>

\* C14: the logs of an end record are the run log at the time of the call;
\* a failure record holds the error line, a success record holds both
\* table success lines, and a failure record of a run whose body raised
\* does not hold the table 2 success line.
C14_EndRecordLogs ==
  pc \in AfterEndRecord =>
    /\ metadata_table[Len(metadata_table)].logs = run_log
    /\ metadata_table[Len(metadata_table)].status = "failure" =>
         /\ "Pipeline run failed" \in
              SeqRange(metadata_table[Len(metadata_table)].logs)
         /\ raised \in SeqRange(BodySteps) =>
              "Pipeline run successful Table 2" \notin
                SeqRange(metadata_table[Len(metadata_table)].logs)
    /\ metadata_table[Len(metadata_table)].status = "success" =>
         {"Pipeline run successful Table 1",
          "Pipeline run successful Table 2"} \subseteq
           SeqRange(metadata_table[Len(metadata_table)].logs)

C14_Witness ==
  /\ pc = "job_return"
  /\ raised = "load2"
  /\ metadata_table[Len(metadata_table)].status = "failure"
  /\ "Pipeline run successful Table 1" \in
       SeqRange(metadata_table[Len(metadata_table)].logs)

C16_HandlersCleared ==
  /\ pc \in {"job_return", "sleep", "run_pending", "construct"} =>
       handlers = {}
  /\ handlers \subseteq {runs}

C16_Witness ==
  /\ runs = 2
  /\ pc = "log_start"
  /\ handlers = {2}
  /\ \E k \in 1..Len(metadata_table) :
       metadata_table[k].run = 1 /\ metadata_table[k].status = "failure"

\* C17: the selection list of each load is the column list of the schema it
\* is loaded into, id is the single primary-key column of each schema and is
\* in the selection list, the schemas are the column lists of the persisted
\* tables, and every row projected or stored has exactly those columns.
C17_ColumnsMatchSchema ==
  /\ SelectionList1 = TableSchema1.columns
  /\ SelectionList2 = TableSchema2.columns
  /\ TableSchema1.primary_key = <<"id">>
  /\ TableSchema2.primary_key = <<"id">>
  /\ "id" \in SeqRange(SelectionList1) \cap SeqRange(SelectionList2)
  /\ TableSchema1.columns =
       <<"type", "id", "properties.place", "properties.title",
         "properties.time", "properties.updated", "properties.nst",
         "properties.dmin", "properties.rms">>
  /\ TableSchema2.columns =
       <<"id", "properties.mag", "properties.gap", "properties.magType",
         "geometry.coordinates">>
  /\ \A r \in SeqRange(df_transformed_table_1) \cup table1 :
       DOMAIN r = SeqRange(TableSchema1.columns)
  /\ \A r \in SeqRange(df_transformed_table_2) \cup table2 :
       DOMAIN r = SeqRange(TableSchema2.columns)

C17_Witness ==
  /\ pc = "log_success"
  /\ table1 # {}
  /\ table2 # {}
  /\ SeqRange(df_transformed_table_1) \subseteq table1
  /\ SeqRange(df_transformed_table_2) \subseteq table2
====
